---- MODULE Spec2Model ----
(***************************************************************************)
(* A model of the two FinBif scripts:                                      *)
(*   newtaxa.py              new occurrences of species in Finland's       *)
(*                           biogeographical provinces and in Finland      *)
(*   invalid_speciesnames.py specimens without a valid species name        *)
(*                                                                         *)
(* Each script runs once, top to bottom.  The model follows that control   *)
(* flow with a program counter; one action is one fetch, one pass of a     *)
(* loop body, or one straight-line block of the script.  What the laji.fi  *)
(* API answers is the model's input, drawn when the fetch or the loop      *)
(* pass happens.                                                           *)
(*                                                                         *)
(* Representation of Python values:                                        *)
(*   - a string that the scripts compare, slice or join (dates, specimen   *)
(*     identifiers, reliabilities) is a sequence of character codes;       *)
(*   - an identifier that the scripts strip of "http://tun.fi/" is a       *)
(*     sequence of tokens, <<"http://tun.fi/", "MX.1">> or <<"MX.1">>;     *)
(*   - occurrence codes and names are TLA+ strings; Chars gives the        *)
(*     characters by which Python orders the occurrence codes;             *)
(*   - a JSON object is a function from its keys, a missing key is a key   *)
(*     outside its DOMAIN;                                                 *)
(*   - a dict the scripts iterate over is [keys, val]: the keys in         *)
(*     insertion order (CPython >= 3.7) and the function from key to       *)
(*     value; a dict that is only looked up is a function.                 *)
(***************************************************************************)
EXTENDS Integers, Sequences, FiniteSets, TLC

VARIABLES
    pc,                \* where newtaxa.py is
    provinces,         \* {province id: province name}
    taxon,             \* number of taxa of 'taxa' whose species list was fetched
    occurrencesTE,     \* {species: {province: occurrenceCode}}, where the species occurs
    occurrencesTEall,  \* {species: {province: occurrenceCode}}, all pairs
    page,              \* next page of specimens to ask for
    loop,              \* the download loop's flag
    js,                \* currentPage and lastPage of the page being read
    occurrences,       \* {species: {province: {occurrenceCode, speciesName, specimens}}}
    notinTE,           \* new species-province pairs
    newToProvinces,    \* the rows of new_to_bioprovinces.csv
    fileProvinces,     \* new_to_bioprovinces.csv on disk
    notinFI,           \* {species: [species, speciesName, ids, modified, gathered, reliabilities]}
    newToFI,           \* the rows of new_to_fi.csv
    fileFI,            \* new_to_fi.csv on disk
    sp,                \* the loops' variable: the record being read
    error,             \* what ended the run early: "" | "fetch" | "KeyError"
    delivered,         \* how many records the source being read has delivered so far
    remote,            \* the country-scoped source: what lies on its later pages,
                       \* and the specimens read from its first page
    npc,               \* where invalid_speciesnames.py is
    npage,             \* invalid_speciesnames.py: next page to ask for
    nloop,             \* invalid_speciesnames.py: the download loop's flag
    njs,               \* invalid_speciesnames.py: currentPage, lastPage and records of the page
    noTaxon,           \* invalid_speciesnames.py: ids of specimens without a species id
    fileNames,         \* invalid_speciesnames.py: mistyped_speciesnames.csv on disk
    nprovinces,        \* invalid_speciesnames.py: {province id: province name}
    nsp,               \* invalid_speciesnames.py: the record being read
    nerror,            \* invalid_speciesnames.py: what ended the run early
    ndelivered,        \* invalid_speciesnames.py: how many records its source has delivered
    pages,             \* newtaxa.py's download loop so far: the pages asked for, the pages
                       \* whose records were all read, the values reported as lastPage
    npages             \* the same of invalid_speciesnames.py's download loop

vars == <<pc, provinces, taxon, occurrencesTE, occurrencesTEall, page, loop, js,
          occurrences, notinTE, newToProvinces, fileProvinces, notinFI, newToFI,
          fileFI, sp, error, delivered, remote, npc, npage, nloop, njs, noTaxon, fileNames,
          nprovinces, nsp, nerror, ndelivered, pages, npages>>

newtaxaVars == <<pc, provinces, taxon, occurrencesTE, occurrencesTEall, page, loop, js,
                 occurrences, notinTE, newToProvinces, fileProvinces, notinFI, newToFI,
                 fileFI, sp, error, delivered, remote, pages>>

namesVars == <<npc, npage, nloop, njs, noTaxon, fileNames, nprovinces, nsp, nerror,
               ndelivered, npages>>

----------------------------------------------------------------------------
(* Bounds of the model *)

\* most records in one species' 'occurrences' list
MaxOccurrences == 2
\* most species entries the Taxon Editor fetches deliver in all
MaxRefSpecies == 1
\* most specimen records the paginated source delivers in all
MaxSpecimens == 2
\* most pages the paginated source reports as its last page
MaxPages == 2
\* most records of the country-scoped source
MaxCountry == 2

----------------------------------------------------------------------------
(* Parameters of the scripts *)

\* taxa = ["MX.44394", "MX.44109"]
taxa == <<"MX.44394", "MX.44109">>

occursStrings ==
    { "MX.typeOfOccurrenceOccurs", "MX.typeOfOccurrenceStablePopulation",
      "MX.typeOfOccurrenceCommon", "MX.typeOfOccurrenceRare",
      "MX.typeOfOccurrenceVeryRare", "MX.typeOfOccurrenceImport",
      "MX.typeOfOccurrenceAnthropogenic", "MX.typeOfOccurrenceAlienOldResident",
      "MX.typeOfOccurrenceSpontaneousNewEphemeral", "MX.typeOfOccurrenceAlienNewEphemeral",
      "MX.typeOfOccurrenceAlienNewResident", "MX.typeOfOccurrenceSmallDegreeCultivatedOrigin",
      "MX.typeOfOccurrenceNotableDegreeCultivatedOrigin",
      "MX.typeOfOccurrenceCompletelyCultivatedOrigin", "MX.typeOfOccurrenceOnlyCultivated" }

\* the two codes that filter 1 treats as old distribution records
oldRecordStrings == { "MX.typeOfOccurrenceOldRecords", "MX.typeOfOccurrenceExtirpated" }

\* filter 1: the first year that counts as recent
recentYearFrom == 1940

----------------------------------------------------------------------------
(* Python strings *)

\* the code of " ", the separator of " ".join
SP == 32
\* the code of "0"
Digit0 == 48

\* a < b for two Python strings (lexicographic by character code)
StrLess(a, b) ==
    \E i \in 1..Len(b) :
        /\ i <= Len(a) + 1
        /\ \A j \in 1..(i - 1) : a[j] = b[j]
        /\ (i = Len(a) + 1 \/ a[i] < b[i])

\* " ".join(xs)
RECURSIVE Join(_)
Join(xs) ==
    IF Len(xs) = 0 THEN <<>>
    ELSE IF Len(xs) = 1 THEN xs[1]
    ELSE xs[1] \o <<SP>> \o Join(Tail(xs))

\* int(s) for a string of digits
RECURSIVE int(_)
int(s) ==
    IF Len(s) = 0 THEN 0
    ELSE 10 * int(SubSeq(s, 1, Len(s) - 1)) + (s[Len(s)] - Digit0)

\* s[0:n]
Slice(s, n) == SubSeq(s, 1, IF Len(s) < n THEN Len(s) ELSE n)

\* x.replace("http://tun.fi/", "") on an identifier
Replace(x) == SelectSeq(x, LAMBDA t : t # "http://tun.fi/")

\* "http://tun.fi/" + x
Qualify(x) == <<"http://tun.fi/">> \o x

\* the characters that decide the order of two occurrence codes: what follows
\* their common prefix "MX.typeOfOccurrence" ("" has none)
Chars(code) ==
    CASE code = "" -> <<>>
      [] code = "MX.typeOfOccurrenceExtirpated" -> <<69, 120>>
      [] code = "MX.typeOfOccurrenceOccurs" -> <<79, 99>>
      [] code = "MX.typeOfOccurrenceOldRecords" -> <<79, 108>>
      [] code = "MX.typeOfOccurrenceUncertain" -> <<85, 110>>

----------------------------------------------------------------------------
(* Helper functions of newtaxa.py *)

\* whether a sorted before b, were a reversed sort to put the later of two
\* equal elements first
BeforeUnstable(a, b, reverse) == IF reverse THEN ~StrLess(a, b) ELSE StrLess(a, b)

\* whether a sorted before b
Before(a, b, reverse) == IF reverse THEN StrLess(b, a) ELSE StrLess(a, b)

\* one step of the stable sort: index i goes behind every index already placed
\* that it does not sort strictly before
RECURSIVE Place(_, _, _, _)
Place(o, i, x, reverse) ==
    IF Len(o) = 0 THEN <<i>>
    ELSE IF Before(x[i], x[o[Len(o)]], reverse)
         THEN Append(Place(SubSeq(o, 1, Len(o) - 1), i, x, reverse), o[Len(o)])
         ELSE Append(o, i)

RECURSIVE Sorted(_, _, _)
Sorted(x, n, reverse) ==
    IF n = 0 THEN <<>> ELSE Place(Sorted(x, n - 1, reverse), n, x, reverse)

\* order(x, reverse): sorted(range(len(x)), key=x.__getitem__, reverse=reverse),
\* a stable sort also when reversed; indices count from 1 here
order(x, reverse) == Sorted(x, Len(x), reverse)

\* sort(x, o)
sort(x, o) == [i \in 1..Len(o) |-> x[o[i]]]

\* exists(x, keys)
RECURSIVE exists(_, _)
exists(x, keys) ==
    IF Len(keys) = 0 THEN TRUE
    ELSE IF keys[1] \in DOMAIN x THEN exists(x[keys[1]], Tail(keys))
    ELSE FALSE

\* check(x, keys, ifnot)
RECURSIVE check(_, _, _)
check(x, keys, ifnot) ==
    IF Len(keys) = 0 THEN x
    ELSE IF keys[1] \in DOMAIN x THEN check(x[keys[1]], Tail(keys), ifnot)
    ELSE ifnot

----------------------------------------------------------------------------
(* Python dicts that are iterated over *)

EmptyDict == [keys |-> <<>>, val |-> <<>>]

\* d[k] = v
Put(d, k, v) ==
    IF k \in DOMAIN d.val
    THEN [d EXCEPT !.val = [x \in DOMAIN d.val |-> IF x = k THEN v ELSE d.val[x]]]
    ELSE [keys |-> Append(d.keys, k),
          val |-> [x \in DOMAIN d.val \cup {k} |-> IF x = k THEN v ELSE d.val[x]]]

----------------------------------------------------------------------------
(* What the API delivers *)

\* no record: the value of 'sp' outside the loops
None == <<>>

\* The JSON object with the given fields.  A field is <<key, {}>> (the key is
\* missing) or <<key, {value}>>.
RECURSIVE Object(_)
Object(fields) ==
    IF Len(fields) = 0 THEN <<>>
    ELSE IF fields[1][2] = {} THEN Object(Tail(fields))
    ELSE (fields[1][1] :> (CHOOSE v \in fields[1][2] : TRUE)) @@ Object(Tail(fields))

\* the same as a field's value: missing when none of its own fields has a value
Nested(fields) == IF DOMAIN Object(fields) = {} THEN {} ELSE {Object(fields)}

\* A record of the warehouse's unit list with the selected fields
\*   unit.linkings.taxon.id (t), unit.linkings.taxon.scientificName (n),
\*   gathering.interpretations.biogeographicalProvince (a), unit.unitId (u),
\*   unit.linkings.unitId (lu), document.documentId (d), document.modifiedDate (m),
\*   gathering.eventDate.end (g), unit.interpretations.reliability (r),
\* each {} (missing) or {value}.
Unit(t, n, a, u, lu, d, m, g, r) ==
    Object(<<
        <<"unit", Nested(<<
            <<"linkings", Nested(<<
                <<"taxon", Nested(<< <<"id", t>>, <<"scientificName", n>> >>)>>,
                <<"unitId", lu>> >>)>>,
            <<"unitId", u>>,
            <<"interpretations", Nested(<< <<"reliability", r>> >>)>> >>)>>,
        <<"document", Nested(<< <<"documentId", d>>, <<"modifiedDate", m>> >>)>>,
        <<"gathering", Nested(<<
            <<"eventDate", Nested(<< <<"end", g>> >>)>>,
            <<"interpretations", Nested(<< <<"biogeographicalProvince", a>> >>)>> >>)>>
    >>)

\* the identifiers of the k-th record a source delivers: "U<k>" and "D<k>"
UnitId(k) == <<85, Digit0 + k>>
DocumentId(k) == <<68, Digit0 + k>>

\* {} or {x}, as b says
Maybe(b, x) == IF b THEN {x} ELSE {}

\* In what follows Fs is a set of records F, each giving the values every field
\* of the API's records may take; the API may deliver any record that takes its
\* values from one F of Fs.

\* the records the paginated specimen source may deliver as its k-th record
Specimens(Fs, k) ==
    UNION {
        { Unit(t, n, a, Maybe(u, UnitId(k)), {}, Maybe(d, DocumentId(k)), m, g, r) :
            t \in F.taxonId, n \in F.name, a \in F.area, u \in F.unitId,
            d \in F.documentId, m \in F.modified, g \in F.gathered,
            r \in F.reliability } : F \in Fs }

\* the records the country-scoped source may deliver as its k-th record
SpecimensFI(Fs, k) ==
    UNION {
        { Unit(t, n, {}, Maybe(u, UnitId(k)), Maybe(lu, UnitId(k)),
               Maybe(d, DocumentId(k)), m, g, r) :
            t \in F.fiTaxonId, n \in F.fiName, u \in F.fiUnitId,
            lu \in F.fiLinkingsUnitId, d \in F.fiDocumentId, m \in F.fiModified,
            g \in F.fiGathered, r \in F.fiReliability } : F \in Fs }

\* the records invalid_speciesnames.py's source may deliver as its k-th record
\* (it selects the document id, the species id and the unit id only)
SpecimensNames(Fs, k) ==
    UNION {
        { Unit(t, {}, {}, Maybe(u, UnitId(k)), {}, Maybe(d, DocumentId(k)), {}, {}, {}) :
            t \in F.taxonId, u \in F.unitId, d \in F.documentId } : F \in Fs }

\* the 'occurrences' lists a species entry of Taxon Editor may carry
OccurrenceLists(F) ==
    UNION { [1..n -> [area : F.refArea, status : F.refStatus]] : n \in 0..MaxOccurrences }

\* the species entries the Taxon Editor fetch may deliver
SpeciesEntries(Fs) ==
    UNION {
        { Object(<< <<"id", {i}>>, <<"occurrences", o>> >>) :
            i \in F.refId,
            o \in { {l} : l \in OccurrenceLists(F) } \cup Maybe(TRUE \in F.refBare, {}) }
        : F \in Fs }

\* the biogeographical provinces of the areas fetch
Areas ==
    << Object(<< <<"id", {<<"ML.251">>}>>, <<"name", {"Ahvenanmaa"}>> >>),
       Object(<< <<"id", {<<"ML.252">>}>>, <<"name", {"Varsinais-Suomi"}>> >>) >>

----------------------------------------------------------------------------
(* newtaxa.py *)

\* a download loop that has not asked for a page yet
NoPages == [asked |-> <<>>, read |-> <<>>, lastPages |-> {}]

Init ==
    /\ pc = "provinces"
    /\ provinces = <<>>
    /\ taxon = 0
    /\ occurrencesTE = <<>>
    /\ occurrencesTEall = <<>>
    /\ page = 1
    /\ loop = TRUE
    /\ js = [currentPage |-> 0, lastPage |-> 0]
    /\ occurrences = EmptyDict
    /\ notinTE = <<>>
    /\ newToProvinces = <<>>
    /\ fileProvinces = [written |-> FALSE, lines |-> <<>>]
    /\ notinFI = EmptyDict
    /\ newToFI = <<>>
    /\ fileFI = [written |-> FALSE, lines |-> <<>>]
    /\ sp = None
    /\ error = ""
    /\ delivered = [species |-> 0, specimens |-> 0, country |-> 0]
    /\ remote = [later |-> <<>>, read |-> <<>>]
    /\ npc = "provinces"
    /\ npage = 1
    /\ nloop = TRUE
    /\ njs = [currentPage |-> 0, lastPage |-> 0]
    /\ noTaxon = <<>>
    /\ fileNames = [written |-> FALSE, lines |-> <<>>]
    /\ nprovinces = <<>>
    /\ nsp = None
    /\ nerror = ""
    /\ ndelivered = 0
    /\ pages = NoPages
    /\ npages = NoPages

\* d with d[k] = v, for a dict that is only looked up
Set(d, k, v) == [x \in DOMAIN d \cup {k} |-> IF x = k THEN v ELSE d[x]]

\* lines 112-119: get the biogeographical provinces from the API
RECURSIVE ProvinceNames(_)
ProvinceNames(results) ==
    IF Len(results) = 0 THEN <<>>
    ELSE Set(ProvinceNames(SubSeq(results, 1, Len(results) - 1)),
             results[Len(results)]["id"], results[Len(results)]["name"])

FetchProvinces ==
    /\ pc = "provinces"
    /\ provinces' = ProvinceNames(Areas)
    /\ pc' = "taxa"
    /\ UNCHANGED <<taxon, occurrencesTE, occurrencesTEall, page, loop, js, occurrences,
                   notinTE, newToProvinces, fileProvinces, notinFI, newToFI, fileFI,
                   sp, error, delivered, remote, namesVars, pages>>

\* lines 129-132: get the known distribution of the next taxon of 'taxa'
FetchSpecies ==
    /\ pc = "taxa"
    /\ taxon < Len(taxa)
    /\ pc' = "species"
    /\ UNCHANGED <<provinces, taxon, occurrencesTE, occurrencesTEall, page, loop, js,
                   occurrences, notinTE, newToProvinces, fileProvinces, notinFI, newToFI,
                   fileFI, sp, error, delivered, remote, namesVars, pages>>

\* 'ocs' were it filled without the test of line 147
RECURSIVE OcsUntested(_, _)
OcsUntested(occs, n) ==
    IF n = 0 THEN <<>>
    ELSE Set(OcsUntested(occs, n - 1), occs[n].area, occs[n].status)

\* lines 142-152: 'ocs' after the loop through the first n records of 'occs'
RECURSIVE Ocs(_, _)
Ocs(occs, n) ==
    IF n = 0 THEN <<>>
    ELSE IF occs[n].status \in occursStrings
         THEN Set(Ocs(occs, n - 1), occs[n].area, occs[n].status)
         ELSE Ocs(occs, n - 1)

\* lines 142-152: 'ocsAll' after the loop through the first n records of 'occs'
RECURSIVE OcsAll(_, _)
OcsAll(occs, n) ==
    IF n = 0 THEN <<>>
    ELSE Set(OcsAll(occs, n - 1), occs[n].area, occs[n].status)

\* lines 135-156: one pass of the loop through the species of the taxon
ReadSpecies(Fs) ==
    /\ pc = "species"
    /\ delivered.species < MaxRefSpecies
    /\ \E entry \in SpeciesEntries(Fs) :
        /\ sp' = entry
        /\ IF "occurrences" \in DOMAIN entry
           THEN /\ occurrencesTE' =
                       Set(occurrencesTE, entry["id"],
                           Ocs(entry["occurrences"], Len(entry["occurrences"])))
                /\ occurrencesTEall' =
                       Set(occurrencesTEall, entry["id"],
                           OcsAll(entry["occurrences"], Len(entry["occurrences"])))
           ELSE UNCHANGED <<occurrencesTE, occurrencesTEall>>
    /\ delivered' = [delivered EXCEPT !.species = @ + 1]
    /\ UNCHANGED <<pc, provinces, taxon, page, loop, js, occurrences, notinTE,
                   newToProvinces, fileProvinces, notinFI, newToFI, fileFI, error, remote,
                   namesVars, pages>>

\* line 135: the species of the taxon are exhausted; line 129: next taxon
EndSpecies ==
    /\ pc = "species"
    /\ taxon' = taxon + 1
    /\ pc' = IF taxon + 1 < Len(taxa) THEN "taxa" ELSE "page"
    /\ sp' = None
    /\ delivered' = IF taxon + 1 < Len(taxa) THEN delivered ELSE [delivered EXCEPT !.species = 0]
    /\ UNCHANGED <<provinces, occurrencesTE, occurrencesTEall, page, loop, js, occurrences,
                   notinTE, newToProvinces, fileProvinces, notinFI, newToFI, fileFI,
                   error, remote, namesVars, pages>>

\* a fetch fails: curl exits with an error, or its answer is not the JSON expected
FetchFails ==
    /\ pc \in {"provinces", "taxa", "page", "fetchFI"}
    /\ pc' = "aborted"
    /\ error' = "fetch"
    /\ UNCHANGED <<provinces, taxon, occurrencesTE, occurrencesTEall, page, loop, js,
                   occurrences, notinTE, newToProvinces, fileProvinces, notinFI, newToFI,
                   fileFI, sp, delivered, remote, namesVars, pages>>

\* lines 169-173: get the next page of specimens
FetchPage ==
    /\ pc = "page"
    /\ \E last \in 1..MaxPages :
        /\ js' = [currentPage |-> page, lastPage |-> last]
        /\ pages' = [pages EXCEPT !.asked = Append(@, page), !.lastPages = @ \cup {last}]
    /\ pc' = "specimens"
    /\ UNCHANGED <<provinces, taxon, occurrencesTE, occurrencesTEall, page, loop,
                   occurrences, notinTE, newToProvinces, fileProvinces, notinFI, newToFI,
                   fileFI, sp, error, delivered, remote, namesVars>>

\* lines 187-193: the unit id for multi-species observations, otherwise the specimen id
specimenID(rec) ==
    IF "unitId" \in DOMAIN rec["unit"]
    THEN rec["unit"]["unitId"]
    ELSE rec["document"]["documentId"]

\* lines 180-200: a lookup of the loop body raises KeyError
RaisesKeyError(rec) ==
    \/ ~exists(rec, <<"gathering", "interpretations", "biogeographicalProvince">>)
    \/ ~exists(rec, <<"unit", "linkings", "taxon", "scientificName">>)
    \/ /\ "unitId" \notin DOMAIN rec["unit"]
       /\ ~exists(rec, <<"document", "documentId">>)
    \/ ~exists(rec, <<"unit", "interpretations", "reliability">>)

\* lines 180-200, were the occurrence code looked up among the pairs where the
\* species occurs (line 184)
ExtractPresent(rec, TEall) ==
    [ species |-> Replace(rec["unit"]["linkings"]["taxon"]["id"]),
      area |-> Replace(rec["gathering"]["interpretations"]["biogeographicalProvince"]),
      occurrenceCode |->
          check(occurrencesTE,
                << Replace(rec["unit"]["linkings"]["taxon"]["id"]),
                   Replace(rec["gathering"]["interpretations"]["biogeographicalProvince"]) >>,
                ""),
      speciesName |-> rec["unit"]["linkings"]["taxon"]["scientificName"],
      specimen |->
          [ specimenID |-> specimenID(rec),
            modifiedDate |-> check(rec, <<"document", "modifiedDate">>, <<>>),
            gatheredDate |-> check(rec, <<"gathering", "eventDate", "end">>, <<>>),
            reliability |-> rec["unit"]["interpretations"]["reliability"] ] ]

\* lines 180-200: what the loop body extracts from a specimen
Extract(rec, TEall) ==
    [ species |-> Replace(rec["unit"]["linkings"]["taxon"]["id"]),
      area |-> Replace(rec["gathering"]["interpretations"]["biogeographicalProvince"]),
      occurrenceCode |->
          check(TEall,
                << Replace(rec["unit"]["linkings"]["taxon"]["id"]),
                   Replace(rec["gathering"]["interpretations"]["biogeographicalProvince"]) >>,
                ""),
      speciesName |-> rec["unit"]["linkings"]["taxon"]["scientificName"],
      specimen |->
          [ specimenID |-> specimenID(rec),
            modifiedDate |-> check(rec, <<"document", "modifiedDate">>, <<>>),
            gatheredDate |-> check(rec, <<"gathering", "eventDate", "end">>, <<>>),
            reliability |-> rec["unit"]["interpretations"]["reliability"] ] ]

\* lines 202-218, were the species name saved anew with every specimen
AddRenaming(occ, x) ==
    IF x.species \notin DOMAIN occ.val
    THEN Put(occ, x.species,
             Put(EmptyDict, x.area,
                 [ occurrenceCode |-> x.occurrenceCode, speciesName |-> x.speciesName,
                   specimens |-> <<x.specimen>> ]))
    ELSE IF x.area \notin DOMAIN occ.val[x.species].val
    THEN Put(occ, x.species,
             Put(occ.val[x.species], x.area,
                 [ occurrenceCode |-> x.occurrenceCode, speciesName |-> x.speciesName,
                   specimens |-> <<x.specimen>> ]))
    ELSE Put(occ, x.species,
             Put(occ.val[x.species], x.area,
                 [ occ.val[x.species].val[x.area]
                     EXCEPT !.specimens = Append(@, x.specimen),
                            !.speciesName = x.speciesName ]))

\* lines 202-218: 'occurrences' with the extracted data added
Add(occ, x) ==
    IF x.species \notin DOMAIN occ.val
    THEN Put(occ, x.species,
             Put(EmptyDict, x.area,
                 [ occurrenceCode |-> x.occurrenceCode, speciesName |-> x.speciesName,
                   specimens |-> <<x.specimen>> ]))
    ELSE IF x.area \notin DOMAIN occ.val[x.species].val
    THEN Put(occ, x.species,
             Put(occ.val[x.species], x.area,
                 [ occurrenceCode |-> x.occurrenceCode, speciesName |-> x.speciesName,
                   specimens |-> <<x.specimen>> ]))
    ELSE Put(occ, x.species,
             Put(occ.val[x.species], x.area,
                 [ occ.val[x.species].val[x.area]
                     EXCEPT !.specimens = Append(@, x.specimen) ]))

\* lines 176-218: one pass of the loop through the specimens of the page
ReadSpecimen(Fs) ==
    /\ pc = "specimens"
    /\ delivered.specimens < MaxSpecimens
    /\ \E rec \in Specimens(Fs, delivered.specimens + 1) :
        /\ sp' = rec
        /\ IF ~exists(rec, <<"unit", "linkings", "taxon", "id">>)
           THEN UNCHANGED <<pc, error, occurrences>>
           ELSE IF RaisesKeyError(rec)
           THEN pc' = "aborted" /\ error' = "KeyError" /\ UNCHANGED occurrences
           ELSE /\ occurrences' = Add(occurrences, Extract(rec, occurrencesTEall))
                /\ UNCHANGED <<pc, error>>
    /\ delivered' = [delivered EXCEPT !.specimens = @ + 1]
    /\ UNCHANGED <<provinces, taxon, occurrencesTE, occurrencesTEall, page, loop, js,
                   notinTE, newToProvinces, fileProvinces, notinFI, newToFI, fileFI,
                   remote, namesVars, pages>>

\* lines 220-225, were the loop ended one page before the last (line 222)
EndPageEarly ==
    /\ pc = "specimens"
    /\ loop' = IF js.currentPage + 1 >= js.lastPage THEN FALSE ELSE loop
    /\ page' = page + 1
    /\ pc' = IF loop' THEN "page" ELSE "compare"
    /\ sp' = None
    /\ delivered' = IF loop' THEN delivered ELSE [delivered EXCEPT !.specimens = 0]
    /\ pages' = [pages EXCEPT !.read = Append(@, js.currentPage)]
    /\ UNCHANGED <<provinces, taxon, occurrencesTE, occurrencesTEall, js, occurrences,
                   notinTE, newToProvinces, fileProvinces, notinFI, newToFI, fileFI,
                   error, remote, namesVars>>

\* lines 220-225: the page is exhausted; end the loop if it was the last page
EndPage ==
    /\ pc = "specimens"
    /\ loop' = IF js.currentPage >= js.lastPage THEN FALSE ELSE loop
    /\ page' = page + 1
    /\ pc' = IF loop' THEN "page" ELSE "compare"
    /\ sp' = None
    /\ delivered' = IF loop' THEN delivered ELSE [delivered EXCEPT !.specimens = 0]
    /\ pages' = [pages EXCEPT !.read = Append(@, js.currentPage)]
    /\ UNCHANGED <<provinces, taxon, occurrencesTE, occurrencesTEall, js, occurrences,
                   notinTE, newToProvinces, fileProvinces, notinFI, newToFI, fileFI,
                   error, remote, namesVars>>

\* lines 240-259: the entry of 'notinTE' for species s in province area
Line(s, area, e) ==
    [ species |-> s,
      speciesName |-> e.speciesName,
      province |-> area,
      occurrenceCode |-> e.occurrenceCode,
      specimens |-> [i \in 1..Len(e.specimens) |-> e.specimens[i].specimenID],
      modifiedDate |-> [i \in 1..Len(e.specimens) |-> e.specimens[i].modifiedDate],
      collectedDate |-> [i \in 1..Len(e.specimens) |-> e.specimens[i].gatheredDate],
      reliability |-> [i \in 1..Len(e.specimens) |-> e.specimens[i].reliability] ]

\* the occurrences of species s in its first n provinces, were none of them
\* tested against the known ones (line 239)
RECURSIVE NewProvincesUntested(_, _, _, _)
NewProvincesUntested(s, oc, known, n) ==
    IF n = 0 THEN <<>>
    ELSE NewProvincesUntested(s, oc, known, n - 1)
         \o << Line(s, oc.keys[n], oc.val[oc.keys[n]]) >>

\* lines 237-259: the new occurrences among the first n provinces of species s
RECURSIVE NewProvinces(_, _, _, _)
NewProvinces(s, oc, known, n) ==
    IF n = 0 THEN <<>>
    ELSE NewProvinces(s, oc, known, n - 1)
         \o (IF oc.keys[n] \notin DOMAIN known
             THEN << Line(s, oc.keys[n], oc.val[oc.keys[n]]) >>
             ELSE <<>>)

\* lines 233-259: the new occurrences among the first n species of 'occurrences'
RECURSIVE NewOccurrences(_, _, _)
NewOccurrences(occ, TE, n) ==
    IF n = 0 THEN <<>>
    ELSE NewOccurrences(occ, TE, n - 1)
         \o (IF occ.keys[n] \in DOMAIN TE
             THEN NewProvinces(occ.keys[n], occ.val[occ.keys[n]], TE[occ.keys[n]],
                               Len(occ.val[occ.keys[n]].keys))
             ELSE <<>>)

\* lines 227-259: compare the specimen data to the known occurrences
\* (the download loop is behind: what was noted of its pages is dropped)
Compare ==
    /\ pc = "compare"
    /\ notinTE' = NewOccurrences(occurrences, occurrencesTE, Len(occurrences.keys))
    /\ pc' = "filter"
    /\ pages' = NoPages
    /\ UNCHANGED <<provinces, taxon, occurrencesTE, occurrencesTEall, page, loop, js,
                   occurrences, newToProvinces, fileProvinces, notinFI, newToFI, fileFI,
                   sp, error, delivered, remote, namesVars>>

\* lines 276-283, were the test of line 282 'later than 1940'
recentYearLater(gatheredDates) ==
    \E i \in 1..Len(gatheredDates) :
        /\ gatheredDates[i] # <<>>
        /\ int(Slice(gatheredDates[i], 4)) > recentYearFrom

\* lines 276-283: some specimen has a date and is from 1940 or later
recentYear(gatheredDates) ==
    \E i \in 1..Len(gatheredDates) :
        /\ gatheredDates[i] # <<>>
        /\ int(Slice(gatheredDates[i], 4)) >= recentYearFrom

\* lines 270-287: filter 1
include(line) ==
    IF line.occurrenceCode \in oldRecordStrings
    THEN recentYear(line.collectedDate)
    ELSE TRUE

\* lines 292-297, were the gathered dates sorted into their own order
SortSpecimensApart(line) ==
    [ line EXCEPT !.specimens = sort(@, order(line.modifiedDate, TRUE)),
                  !.modifiedDate = sort(@, order(line.modifiedDate, TRUE)),
                  !.collectedDate = sort(@, order(line.collectedDate, TRUE)),
                  !.reliability = sort(@, order(line.modifiedDate, TRUE)) ]

\* lines 292-297: sort the specimens by modifiedDate
SortSpecimens(line) ==
    [ line EXCEPT !.specimens = sort(@, order(line.modifiedDate, TRUE)),
                  !.modifiedDate = sort(@, order(line.modifiedDate, TRUE)),
                  !.collectedDate = sort(@, order(line.modifiedDate, TRUE)),
                  !.reliability = sort(@, order(line.modifiedDate, TRUE)) ]

\* lines 299-305: the human-readable format
Readable(line, names) ==
    [ line EXCEPT !.species = Qualify(@),
                  !.province = names[@],
                  !.specimens = Join(@),
                  !.modifiedDate = Join(@),
                  !.collectedDate = Join(@),
                  !.reliability = Join(@) ]

\* lines 263-306: 'newToProvinces' after the loop through the first n entries of 'notinTE'
RECURSIVE Filtered(_, _, _)
Filtered(lines, names, n) ==
    IF n = 0 THEN <<>>
    ELSE Filtered(lines, names, n - 1)
         \o (IF include(lines[n])
             THEN << Readable(SortSpecimens(lines[n]), names) >>
             ELSE <<>>)

\* lines 308-316: sort by the most recent date when a specimen was modified
ByModifiedDate(rows) ==
    sort(rows, order([i \in 1..Len(rows) |-> rows[i].modifiedDate], TRUE))

\* the rows, were lines 318-326 left out
AsSortedByDate(rows) == rows

\* lines 318-326: sort by occurrence code
ByOccurrenceCode(rows) ==
    sort(rows, order([i \in 1..Len(rows) |-> Chars(rows[i].occurrenceCode)], FALSE))

\* lines 261-326: filter, sort and convert the new occurrences
FilterAndSort ==
    /\ pc = "filter"
    /\ IF \E i \in 1..Len(notinTE) :
            include(notinTE[i]) /\ notinTE[i].province \notin DOMAIN provinces
       THEN pc' = "aborted" /\ error' = "KeyError" /\ UNCHANGED newToProvinces
       ELSE /\ newToProvinces' =
                   ByOccurrenceCode(ByModifiedDate(Filtered(notinTE, provinces, Len(notinTE))))
            /\ pc' = "write"
            /\ UNCHANGED error
    /\ UNCHANGED <<provinces, taxon, occurrencesTE, occurrencesTEall, page, loop, js,
                   occurrences, notinTE, fileProvinces, notinFI, newToFI, fileFI,
                   sp, delivered, remote, namesVars, pages>>

\* lines 328-340: write new_to_bioprovinces.csv
WriteProvinces ==
    /\ pc = "write"
    /\ fileProvinces' = [written |-> TRUE, lines |-> newToProvinces]
    /\ pc' = "fetchFI"
    /\ UNCHANGED <<provinces, taxon, occurrencesTE, occurrencesTEall, page, loop, js,
                   occurrences, notinTE, newToProvinces, notinFI, newToFI, fileFI,
                   sp, error, delivered, remote, namesVars, pages>>

\* the field of a record as {} (missing) or {value}
Field(rec, keys) == IF exists(rec, keys) THEN {check(rec, keys, <<>>)} ELSE {}

\* the records that may lie on the pages after the first of the country-scoped
\* source, when it reports 'last' as its last page: one on each page
LaterPages(Fs, last) ==
    [ 1..(last - 1) ->
        UNION { { Unit(t, {"Bryum sp."}, {}, {}, {}, {DocumentId(9)}, {<<49>>}, {}, {<<82>>}) :
                    t \in F.fiTaxonId \ {{}} } : F \in Fs } ]

\* lines 352-354: get the Finnish specimens of species not known to occur in
\* Finland: page 1 with page size 100
FetchFI(Fs) ==
    /\ pc = "fetchFI"
    /\ \E last \in 1..MaxPages :
        \E later \in LaterPages(Fs, last) :
            /\ js' = [currentPage |-> 1, lastPage |-> last]
            /\ remote' = [remote EXCEPT !.later = later]
    /\ pc' = "specimensFI"
    /\ UNCHANGED <<provinces, taxon, occurrencesTE, occurrencesTEall, page, loop,
                   occurrences, notinTE, newToProvinces, fileProvinces, notinFI, newToFI,
                   fileFI, sp, error, delivered, namesVars, pages>>

\* lines 366-372: the unit id for multi-species observations, otherwise the specimen id
specimenIDFI(rec) ==
    IF "unitId" \in DOMAIN rec["unit"]["linkings"]
    THEN rec["unit"]["linkings"]["unitId"]
    ELSE rec["document"]["documentId"]

\* lines 361-379: a lookup of the loop body raises KeyError
RaisesKeyErrorFI(rec) ==
    \/ ~exists(rec, <<"unit", "linkings", "taxon", "scientificName">>)
    \/ /\ "unitId" \notin DOMAIN rec["unit"]["linkings"]
       /\ ~exists(rec, <<"document", "documentId">>)
    \/ ~exists(rec, <<"unit", "interpretations", "reliability">>)

\* lines 361-379: what the loop body extracts from a specimen
ExtractFI(rec) ==
    [ species |-> Replace(rec["unit"]["linkings"]["taxon"]["id"]),
      speciesName |-> rec["unit"]["linkings"]["taxon"]["scientificName"],
      specimenID |-> specimenIDFI(rec),
      modifiedDate |-> check(rec, <<"document", "modifiedDate">>, <<>>),
      gatheredDate |-> check(rec, <<"gathering", "eventDate", "end">>, <<>>),
      reliability |-> rec["unit"]["interpretations"]["reliability"] ]

\* lines 381-391: 'notinFI' with the extracted data added
AddFI(fi, x) ==
    IF x.species \notin DOMAIN fi.val
    THEN Put(fi, x.species,
             [ species |-> x.species, speciesName |-> x.speciesName,
               specimens |-> <<x.specimenID>>, modifiedDate |-> <<x.modifiedDate>>,
               collectedDate |-> <<x.gatheredDate>>, reliability |-> <<x.reliability>> ])
    ELSE Put(fi, x.species,
             [ fi.val[x.species]
                 EXCEPT !.specimens = Append(@, x.specimenID),
                        !.modifiedDate = Append(@, x.modifiedDate),
                        !.collectedDate = Append(@, x.gatheredDate),
                        !.reliability = Append(@, x.reliability) ])

\* what 'remote' remembers of a specimen read from the first page
Read(rec) ==
    [ species |-> Replace(rec["unit"]["linkings"]["taxon"]["id"]),
      unitId |-> Field(rec, <<"unit", "unitId">>),
      linkingsUnitId |-> Field(rec, <<"unit", "linkings", "unitId">>),
      documentId |-> Field(rec, <<"document", "documentId">>),
      modifiedDate |-> Field(rec, <<"document", "modifiedDate">>),
      gatheredDate |-> Field(rec, <<"gathering", "eventDate", "end">>),
      reliability |-> Field(rec, <<"unit", "interpretations", "reliability">>) ]

\* lines 357-391: one pass of the loop through the specimens of the page
ReadFI(Fs) ==
    /\ pc = "specimensFI"
    /\ delivered.country < MaxCountry
    /\ \E rec \in SpecimensFI(Fs, delivered.country + 1) :
        /\ sp' = rec
        /\ IF ~exists(rec, <<"unit", "linkings", "taxon", "id">>)
           THEN UNCHANGED <<pc, error, notinFI, remote>>
           ELSE IF RaisesKeyErrorFI(rec)
           THEN pc' = "aborted" /\ error' = "KeyError" /\ UNCHANGED <<notinFI, remote>>
           ELSE /\ notinFI' = AddFI(notinFI, ExtractFI(rec))
                /\ remote' = [remote EXCEPT !.read = Append(@, Read(rec))]
                /\ UNCHANGED <<pc, error>>
    /\ delivered' = [delivered EXCEPT !.country = @ + 1]
    /\ UNCHANGED <<provinces, taxon, occurrencesTE, occurrencesTEall, page, loop, js,
                   occurrences, notinTE, newToProvinces, fileProvinces, newToFI, fileFI,
                   namesVars, pages>>

\* lines 402-407: sort the specimens by date modified
SortSpecimensFI(line) ==
    [ line EXCEPT !.specimens = sort(@, order(line.modifiedDate, TRUE)),
                  !.modifiedDate = sort(@, order(line.modifiedDate, TRUE)),
                  !.collectedDate = sort(@, order(line.modifiedDate, TRUE)),
                  !.reliability = sort(@, order(line.modifiedDate, TRUE)) ]

\* lines 409-414: the human-readable format
ReadableFI(line) ==
    [ line EXCEPT !.species = Qualify(@),
                  !.specimens = Join(@),
                  !.modifiedDate = Join(@),
                  !.collectedDate = Join(@),
                  !.reliability = Join(@) ]

\* lines 393-415: 'newToFI' after the loop through 'notinFI'
SortedFI(fi) ==
    [ i \in 1..Len(fi.keys) |-> ReadableFI(SortSpecimensFI(fi.val[fi.keys[i]])) ]

\* lines 393-425: the page is exhausted; sort and convert the new species
SortFI ==
    /\ pc = "specimensFI"
    /\ newToFI' = ByModifiedDate(SortedFI(notinFI))
    /\ pc' = "writeFI"
    /\ sp' = None
    /\ delivered' = [delivered EXCEPT !.country = 0]
    /\ UNCHANGED <<provinces, taxon, occurrencesTE, occurrencesTEall, page, loop, js,
                   occurrences, notinTE, newToProvinces, fileProvinces, notinFI, fileFI,
                   error, remote, namesVars, pages>>

\* lines 427-439: write new_to_fi.csv
WriteFI ==
    /\ pc = "writeFI"
    /\ fileFI' = [written |-> TRUE, lines |-> newToFI]
    /\ pc' = "done"
    /\ UNCHANGED <<provinces, taxon, occurrencesTE, occurrencesTEall, page, loop, js,
                   occurrences, notinTE, newToProvinces, fileProvinces, notinFI, newToFI,
                   sp, error, delivered, remote, namesVars, pages>>

\* newtaxa.py, when the API delivers the records of Fs
Next(Fs) ==
    \/ FetchProvinces
    \/ FetchSpecies
    \/ ReadSpecies(Fs)
    \/ EndSpecies
    \/ FetchPage
    \/ ReadSpecimen(Fs)
    \/ EndPage
    \/ Compare
    \/ FilterAndSort
    \/ WriteProvinces
    \/ FetchFI(Fs)
    \/ ReadFI(Fs)
    \/ SortFI
    \/ WriteFI
    \/ FetchFails

----------------------------------------------------------------------------
(* invalid_speciesnames.py *)

\* lines 72-79: get the biogeographical provinces from the API
NamesFetchProvinces ==
    /\ npc = "provinces"
    /\ nprovinces' = ProvinceNames(Areas)
    /\ npc' = "page"
    /\ UNCHANGED <<newtaxaVars, npage, nloop, njs, noTaxon, fileNames, nsp, nerror,
                   ndelivered, npages>>

\* a fetch fails: curl exits with an error, or its answer is not the JSON expected
NamesFetchFails ==
    /\ npc \in {"provinces", "page"}
    /\ npc' = "aborted"
    /\ nerror' = "fetch"
    /\ UNCHANGED <<newtaxaVars, npage, nloop, njs, noTaxon, fileNames, nprovinces, nsp,
                   ndelivered, npages>>

\* lines 98-107: get the next page of specimens, stop when the last page is done,
\* go to next page
NamesFetchPage ==
    /\ npc = "page"
    /\ \E last \in 1..MaxPages :
        /\ njs' = [currentPage |-> npage, lastPage |-> last]
        /\ nloop' = IF npage >= last THEN FALSE ELSE nloop
        /\ npages' = [npages EXCEPT !.asked = Append(@, npage), !.lastPages = @ \cup {last}]
    /\ npage' = npage + 1
    /\ npc' = "specimens"
    /\ UNCHANGED <<newtaxaVars, noTaxon, fileNames, nprovinces, nsp, nerror, ndelivered>>

\* lines 113-120: the unit ID of a multi-species observation, otherwise the specimen ID
id(rec) ==
    IF exists(rec, <<"unit", "unitId">>)
    THEN rec["unit"]["unitId"]
    ELSE rec["document"]["documentId"]

\* lines 110-123: one pass of the loop through the specimens of the page
NamesReadSpecimen(Fs) ==
    /\ npc = "specimens"
    /\ ndelivered < MaxSpecimens
    /\ \E rec \in SpecimensNames(Fs, ndelivered + 1) :
        /\ nsp' = rec
        /\ IF exists(rec, <<"unit", "linkings", "taxon", "id">>)
           THEN UNCHANGED <<npc, nerror, noTaxon>>
           ELSE IF ~exists(rec, <<"unit", "unitId">>)
                   /\ ~exists(rec, <<"document", "documentId">>)
           THEN npc' = "aborted" /\ nerror' = "KeyError" /\ UNCHANGED noTaxon
           ELSE noTaxon' = Append(noTaxon, id(rec)) /\ UNCHANGED <<npc, nerror>>
    /\ ndelivered' = ndelivered + 1
    /\ UNCHANGED <<newtaxaVars, npage, nloop, njs, fileNames, nprovinces, npages>>

\* line 97: the page is exhausted; back to the head of the loop
NamesEndPage ==
    /\ npc = "specimens"
    /\ npc' = IF nloop THEN "page" ELSE "write"
    /\ nsp' = None
    /\ ndelivered' = IF nloop THEN ndelivered ELSE 0
    /\ npages' = [npages EXCEPT !.read = Append(@, njs.currentPage)]
    /\ UNCHANGED <<newtaxaVars, npage, nloop, njs, noTaxon, fileNames, nprovinces, nerror>>

\* lines 125-137: write the specimens without a valid species ID to the file
NamesWrite ==
    /\ npc = "write"
    /\ fileNames' = [written |-> TRUE, lines |-> sort(noTaxon, order(noTaxon, FALSE))]
    /\ npc' = "done"
    /\ UNCHANGED <<newtaxaVars, npage, nloop, njs, noTaxon, nprovinces, nsp, nerror,
                   ndelivered, npages>>

\* invalid_speciesnames.py, when the API delivers the records of Fs
NextNames(Fs) ==
    \/ NamesFetchProvinces
    \/ NamesFetchPage
    \/ NamesReadSpecimen(Fs)
    \/ NamesEndPage
    \/ NamesWrite
    \/ NamesFetchFails

----------------------------------------------------------------------------
(* The values of the API's records *)

\* species and provinces
MX1 == <<"MX.1">>
MX2 == <<"MX.2">>
MX3 == <<"MX.3">>
ML251 == <<"ML.251">>
ML252 == <<"ML.252">>

\* modification dates "1" < "2" (timestamps of one fixed width, cut to a character)
Mod1 == <<49>>
Mod2 == <<50>>

\* gathered dates "1939-12" and "1940-01"
Gathered1939 == <<49, 57, 51, 57, 45, 49, 50>>
Gathered1940 == <<49, 57, 52, 48, 45, 48, 49>>

\* reliabilities "R" and "U"
Reliable == <<82>>
Unreliable == <<85>>

\* every record complete and alike: one species with one known province, its
\* specimens from that province; one species new to Finland
Plain ==
    [ refId |-> {MX1}, refArea |-> {ML251}, refStatus |-> {"MX.typeOfOccurrenceOccurs"},
      refBare |-> {FALSE},
      taxonId |-> {{Qualify(MX1)}}, name |-> {{"Bryum a"}}, area |-> {{Qualify(ML251)}},
      unitId |-> {FALSE}, documentId |-> {TRUE}, modified |-> {{Mod1}},
      gathered |-> {{Gathered1940}}, reliability |-> {{Reliable}},
      fiTaxonId |-> {{Qualify(MX3)}}, fiName |-> {{"Bryum c"}}, fiUnitId |-> {FALSE},
      fiLinkingsUnitId |-> {FALSE}, fiDocumentId |-> {TRUE}, fiModified |-> {{Mod1}},
      fiGathered |-> {{Gathered1940}}, fiReliability |-> {{Reliable}} ]

\* records that differ from the plain ones in one field, which is missing (or,
\* for a unit id, present)
Partial ==
    { [Plain EXCEPT !.refBare = {TRUE}],
      [Plain EXCEPT !.taxonId = {{}}],
      [Plain EXCEPT !.name = {{}}],
      [Plain EXCEPT !.area = {{}}],
      [Plain EXCEPT !.unitId = {TRUE}],
      [Plain EXCEPT !.documentId = {FALSE}],
      [Plain EXCEPT !.modified = {{}}],
      [Plain EXCEPT !.gathered = {{}}],
      [Plain EXCEPT !.reliability = {{}}],
      [Plain EXCEPT !.fiTaxonId = {{}}],
      [Plain EXCEPT !.fiName = {{}}],
      [Plain EXCEPT !.fiUnitId = {TRUE}],
      [Plain EXCEPT !.fiDocumentId = {FALSE}],
      [Plain EXCEPT !.fiModified = {{}}],
      [Plain EXCEPT !.fiGathered = {{}}],
      [Plain EXCEPT !.fiReliability = {{}}] }

\* newtaxa.py on records that may lack a field
Spec == Init /\ [][Next(Partial)]_vars

\* invalid_speciesnames.py on records that may lack a field
SpecNames == Init /\ [][NextNames(Partial)]_vars

\* a Taxon Editor that lists a species for both provinces, as occurring or as
\* extirpated, in any number and order of records; no specimen has a species id
Reference ==
    { [Plain EXCEPT !.refArea = {ML251, ML252},
                    !.refStatus = {"MX.typeOfOccurrenceOccurs", "MX.typeOfOccurrenceExtirpated"},
                    !.refBare = {FALSE, TRUE},
                    !.taxonId = {{}}, !.fiTaxonId = {{}}] }

\* newtaxa.py on that Taxon Editor
SpecReference == Init /\ [][Next(Reference)]_vars

\* Taxon Editor lists one species for one province with any of four statuses;
\* the specimens are of that species, from either province and gathered in
\* 1939, in 1940 or at no known date, or of a species Taxon Editor does not list
Reconcile ==
    { [Plain EXCEPT !.refStatus = { "MX.typeOfOccurrenceOccurs", "MX.typeOfOccurrenceOldRecords",
                                    "MX.typeOfOccurrenceExtirpated",
                                    "MX.typeOfOccurrenceUncertain" },
                    !.refBare = {FALSE, TRUE},
                    !.area = {{Qualify(ML251)}, {Qualify(ML252)}},
                    !.gathered = {{}, {Gathered1939}, {Gathered1940}}],
      [Plain EXCEPT !.taxonId = {{Qualify(MX2)}}, !.name = {{"Bryum b"}}] }

\* newtaxa.py on those records
SpecReconcile == Init /\ [][Next(Reconcile)]_vars

\* Taxon Editor lists one species as extirpated or of uncertain occurrence in
\* either province; its specimens are from either province, modified at "1", at
\* "2" or at no known date
Ordering ==
    { [Plain EXCEPT !.refArea = {ML251, ML252},
                    !.refStatus = {"MX.typeOfOccurrenceExtirpated", "MX.typeOfOccurrenceUncertain"},
                    !.area = {{Qualify(ML251)}, {Qualify(ML252)}},
                    !.modified = {{}, {Mod1}, {Mod2}}] }

\* newtaxa.py on those records
SpecOrdering == Init /\ [][Next(Ordering)]_vars

\* the specimens of the listed species are from a province new to it, those of
\* the country-scoped source of one species; they differ in modification date
\* only, or one of them, modified at "1", differs in gathered date and reliability
Details ==
    { [Plain EXCEPT !.area = {{Qualify(ML252)}},
                    !.modified = {{}, {Mod1}, {Mod2}},
                    !.fiModified = {{}, {Mod1}, {Mod2}}],
      [Plain EXCEPT !.area = {{Qualify(ML252)}},
                    !.gathered = {{Gathered1939}},
                    !.reliability = {{Unreliable}},
                    !.fiGathered = {{Gathered1939}},
                    !.fiReliability = {{Unreliable}}] }

\* newtaxa.py on those records
SpecDetails == Init /\ [][Next(Details)]_vars

\* records complete and alike; the country-scoped source has no record with a
\* species id
Loops == { [Plain EXCEPT !.fiTaxonId = {{}}] }

\* both scripts, each run once, on those records; a script in its download
\* loop does not stop there: it goes on to fetch the page it is to fetch, and
\* to the end of the page it is reading
SpecLoops ==
    /\ Init
    /\ [][Next(Loops) \/ NextNames(Loops)]_vars
    /\ WF_vars(FetchPage \/ FetchFails)
    /\ WF_vars(EndPage)
    /\ WF_vars(NamesFetchPage \/ NamesFetchFails)
    /\ WF_vars(NamesEndPage)

\* Taxon Editor lists one species as of uncertain occurrence in one province;
\* its specimens are from either province and name it in one of two ways, as
\* do the specimens of the species of the country-scoped source
Naming ==
    { [Plain EXCEPT !.refStatus = {"MX.typeOfOccurrenceUncertain"},
                    !.area = {{Qualify(ML251)}, {Qualify(ML252)}},
                    !.name = {{"Bryum a"}, {"Bryum b"}},
                    !.fiName = {{"Bryum c"}, {"Bryum d"}}] }

\* newtaxa.py on those records
SpecNaming == Init /\ [][Next(Naming)]_vars

----------------------------------------------------------------------------
(* Notions the properties are stated with *)

\* s.split(" ")
RECURSIVE Split(_)
Split(s) ==
    IF \A i \in 1..Len(s) : s[i] # SP THEN <<s>>
    ELSE LET i == CHOOSE k \in 1..Len(s) : s[k] = SP /\ \A j \in 1..(k - 1) : s[j] # SP
         IN <<SubSeq(s, 1, i - 1)>> \o Split(SubSeq(s, i + 1, Len(s)))

\* the elements of a sequence
Range(q) == { q[i] : i \in 1..Len(q) }

\* the last element of a sequence
Last(q) == q[Len(q)]

\* a field read from a record, the empty string if the record lacks it
OrEmpty(field) == IF field = {} THEN <<>> ELSE CHOOSE v \in field : TRUE

\* the species the sources know of
AllSpecies == {MX1, MX2, MX3}

\* the provinces
AllProvinces == {ML251, ML252}

\* 'sp' is a specimen record with a species id
HasSpecies(rec) == rec # None /\ exists(rec, <<"unit", "linkings", "taxon", "id">>)

\* the species of a specimen record
SpeciesOf(rec) == Replace(rec["unit"]["linkings"]["taxon"]["id"])

\* the identifier a specimen record should be known by: its unit's, or else its document's
UnitLevelId(rec) ==
    IF exists(rec, <<"unit", "unitId">>)
    THEN rec["unit"]["unitId"]
    ELSE rec["document"]["documentId"]

\* the entry of 'occurrences' that the specimen record 'rec' went to
EntryOf(rec) ==
    occurrences.val[SpeciesOf(rec)].val[
        Replace(rec["gathering"]["interpretations"]["biogeographicalProvince"])]

\* the specimens of species s that the country-scoped source holds on its later pages
Later(s) == { i \in 1..Len(remote.later) : SpeciesOf(remote.later[i]) = s }

\* the specimens of species s read from the first page of the country-scoped source
ReadOf(s) == SelectSeq(remote.read, LAMBDA r : r.species = s)

\* the rows of new_to_fi.csv for species s
RowsFI(s) == { i \in 1..Len(fileFI.lines) : fileFI.lines[i].species = Qualify(s) }

----------------------------------------------------------------------------
(* Properties *)

\* C4: the country-novelty output contains exactly one record for each species
\* that has a specimen in the country-scoped source and is not in the reference
\* index, none for a species that is in the reference index; the record has no
\* region field and carries every country-scoped specimen of the species.
C4_CountryNovelty ==
    pc = "done" =>
        \A s \in AllSpecies :
            IF s \in DOMAIN occurrencesTE
            THEN RowsFI(s) = {}
            ELSE (Later(s) # {} \/ Len(ReadOf(s)) > 0) =>
                    /\ Cardinality(RowsFI(s)) = 1
                    /\ \A i \in RowsFI(s) :
                        /\ "province" \notin DOMAIN fileFI.lines[i]
                        /\ Len(Split(fileFI.lines[i].specimens))
                               = Len(ReadOf(s)) + Cardinality(Later(s))
                        /\ \A l \in Later(s) :
                               remote.later[l]["document"]["documentId"]
                                   \in Range(Split(fileFI.lines[i].specimens))

\* C7: a missing field in a specimen record is never fatal: reading the record
\* never ends the run, and the missing field takes the empty value.
C7_MissingFieldNeverFatal ==
    /\ error # "KeyError"
    /\ (pc = "specimens" /\ HasSpecies(sp)) =>
           /\ Last(EntryOf(sp).specimens).modifiedDate =
                  OrEmpty(Field(sp, <<"document", "modifiedDate">>))
           /\ Last(EntryOf(sp).specimens).gatheredDate =
                  OrEmpty(Field(sp, <<"gathering", "eventDate", "end">>))
           /\ Last(EntryOf(sp).specimens).reliability =
                  OrEmpty(Field(sp, <<"unit", "interpretations", "reliability">>))

\* C8: a run is all-or-nothing: when a fetch has failed, neither output has
\* been written.
C8_AllOrNothing ==
    error = "fetch" => ~fileProvinces.written /\ ~fileFI.written

\* C9: in every path that records a specimen, the identifier recorded is the
\* record's unit-level identifier when it has one, and the document's
\* identifier only when it has none.
C9_UnitLevelIdentifier ==
    /\ (pc = "specimens" /\ HasSpecies(sp)) =>
           Last(EntryOf(sp).specimens).specimenID = UnitLevelId(sp)
    /\ (pc = "specimensFI" /\ HasSpecies(sp)) =>
           Last(notinFI.val[SpeciesOf(sp)].specimens) = UnitLevelId(sp)
    /\ (npc = "specimens" /\ nsp # None /\ ~HasSpecies(nsp)) =>
           Last(noTaxon) = UnitLevelId(nsp)

\* the areas that the records of a species entry list with a status of the vocabulary
AreasPresent(entry) ==
    { entry["occurrences"][i].area :
        i \in { j \in 1..Len(entry["occurrences"]) :
                  entry["occurrences"][j].status \in occursStrings } }

\* the areas that the records of a species entry list
AreasAll(entry) ==
    { entry["occurrences"][i].area : i \in 1..Len(entry["occurrences"]) }

\* the entry of Taxon Editor just read has an 'occurrences' list
ReadOccurrences == pc = "species" /\ sp # None /\ "occurrences" \in DOMAIN sp

\* C6 (as the code has it): for every species with reference records, the
\* 'present' set is the set of regions that at least one of its records lists
\* with a status of the confirmed-occurrence vocabulary, each with such a
\* status; it contains every region whose status in the all-status map is of
\* the vocabulary, and lies within the regions of the all-status map, which
\* are the regions of the species' records.
C6_PresentSet ==
    /\ DOMAIN occurrencesTE = DOMAIN occurrencesTEall
    /\ \A S \in DOMAIN occurrencesTEall :
        /\ { a \in DOMAIN occurrencesTEall[S] : occurrencesTEall[S][a] \in occursStrings }
               \subseteq DOMAIN occurrencesTE[S]
        /\ DOMAIN occurrencesTE[S] \subseteq DOMAIN occurrencesTEall[S]
        /\ \A a \in DOMAIN occurrencesTE[S] : occurrencesTE[S][a] \in occursStrings
    /\ ReadOccurrences =>
        /\ DOMAIN occurrencesTE[sp["id"]] = AreasPresent(sp)
        /\ DOMAIN occurrencesTEall[sp["id"]] = AreasAll(sp)
        /\ \A a \in AreasAll(sp) :
               \E i \in 1..Len(sp["occurrences"]) :
                   /\ sp["occurrences"][i] = [area |-> a, status |-> occurrencesTEall[sp["id"]][a]]
                   /\ \A j \in (i + 1)..Len(sp["occurrences"]) : sp["occurrences"][j].area # a

\* C6 witness: a species entry was read that lists one region twice, first as
\* occurring and then as extirpated, and the region is in its 'present' set
C6_Witness ==
    /\ ReadOccurrences
    /\ Len(sp["occurrences"]) = 2
    /\ sp["occurrences"][1] = [area |-> ML251, status |-> "MX.typeOfOccurrenceOccurs"]
    /\ sp["occurrences"][2] = [area |-> ML251, status |-> "MX.typeOfOccurrenceExtirpated"]
    /\ ML251 \in DOMAIN occurrencesTE[MX1]
    /\ occurrencesTEall[MX1][ML251] = "MX.typeOfOccurrenceExtirpated"

\* C6 as stated: the 'present' set is exactly the set of regions whose status in
\* the all-status map is of the confirmed-occurrence vocabulary
C6_PresentSetExact ==
    \A S \in DOMAIN occurrencesTEall :
        /\ S \in DOMAIN occurrencesTE
        /\ DOMAIN occurrencesTE[S] =
               { a \in DOMAIN occurrencesTEall[S] : occurrencesTEall[S][a] \in occursStrings }

\* the year of a date "yyyy-..."
Year(d) ==
    (d[1] - Digit0) * 1000 + (d[2] - Digit0) * 100 + (d[3] - Digit0) * 10 + (d[4] - Digit0)

\* the pair (s, a) has an aggregated specimen
Aggregated(s, a) == s \in DOMAIN occurrences.val /\ a \in DOMAIN occurrences.val[s].val

\* the rows among 'rows' for species s in province a
RowsOf(rows, s, a) ==
    { i \in 1..Len(rows) : rows[i].species = Qualify(s) /\ rows[i].province = provinces[a] }

\* a status and gathered dates that the staleness filter is to drop
Stale(code, dates) ==
    /\ code \in {"MX.typeOfOccurrenceOldRecords", "MX.typeOfOccurrenceExtirpated"}
    /\ \A i \in 1..Len(dates) : dates[i] = <<>> \/ Year(dates[i]) < 1940

\* the gathered dates of the aggregated specimens of (s, a)
Gathered(s, a) ==
    [ i \in 1..Len(occurrences.val[s].val[a].specimens) |->
        occurrences.val[s].val[a].specimens[i].gatheredDate ]

\* C1 (as the code has it): a (Species, Region) pair appears in the
\* region-novelty output, once, if and only if the pair has an aggregated
\* specimen, Region is not in the Species' 'present' set, Species has an entry
\* in the reference index (an 'occurrences' list, be it empty), and the
\* staleness filter does not drop the pair.
C1_RegionNovelty ==
    fileProvinces.written =>
        \A s \in AllSpecies, a \in AllProvinces :
            /\ Cardinality(RowsOf(fileProvinces.lines, s, a)) <= 1
            /\ RowsOf(fileProvinces.lines, s, a) # {} <=>
                   /\ Aggregated(s, a)
                   /\ s \in DOMAIN occurrencesTE
                   /\ a \notin DOMAIN occurrencesTE[s]
                   /\ ~Stale(occurrences.val[s].val[a].occurrenceCode, Gathered(s, a))

\* C1 witness: the output has the listed species in a province new to it, and
\* lacks an unlisted species that has an aggregated specimen
C1_Witness ==
    /\ fileProvinces.written
    /\ RowsOf(fileProvinces.lines, MX1, ML252) # {}
    /\ Aggregated(MX2, ML251)
    /\ MX2 \notin DOMAIN occurrencesTE

\* C1 as stated: a pair appears in the region-novelty output if and only if it
\* has an aggregated specimen, Region is not in the Species' 'present' set, and
\* Species has at least one reference record
C1_RegionNoveltyAsStated ==
    fileProvinces.written =>
        \A s \in AllSpecies, a \in AllProvinces :
            RowsOf(fileProvinces.lines, s, a) # {} <=>
                /\ Aggregated(s, a)
                /\ s \notin DOMAIN occurrencesTE \/ a \notin DOMAIN occurrencesTE[s]
                /\ s \in DOMAIN occurrencesTEall /\ DOMAIN occurrencesTEall[s] # {}

\* the staleness filter has run
Filter1Done == pc = "write" \/ fileProvinces.written

\* C3: the staleness filter drops a region-novelty record if and only if its
\* reference status is one of the two historical codes and no contributing
\* specimen has a non-empty gathered date of year 1940 or later.
C3_StalenessFilter ==
    Filter1Done =>
        \A i \in 1..Len(notinTE) :
            RowsOf(newToProvinces, notinTE[i].species, notinTE[i].province) = {}
                <=> Stale(notinTE[i].occurrenceCode, notinTE[i].collectedDate)

\* C3 witness: the filter has dropped an extirpated record whose only dated
\* specimen is from 1939, and kept a record with the empty status whose
\* specimens are no younger
C3_Witness ==
    /\ Filter1Done
    /\ \E i \in 1..Len(notinTE) :
        /\ notinTE[i].occurrenceCode = "MX.typeOfOccurrenceExtirpated"
        /\ Gathered1939 \in Range(notinTE[i].collectedDate)
        /\ RowsOf(newToProvinces, notinTE[i].species, notinTE[i].province) = {}
    /\ \E i \in 1..Len(notinTE) :
        /\ notinTE[i].occurrenceCode = ""
        /\ Gathered1940 \notin Range(notinTE[i].collectedDate)
        /\ RowsOf(newToProvinces, notinTE[i].species, notinTE[i].province) # {}

\* the most recent modification date of an output row: the first of its dates
MostRecent(row) == Split(row.modifiedDate)[1]

\* where the entry of 'notinTE' that became the output row is in 'notinTE'
Origin(row) ==
    CHOOSE i \in 1..Len(notinTE) :
        Qualify(notinTE[i].species) = row.species /\ provinces[notinTE[i].province] = row.province

\* C2 (as the code has it): in the final region-novelty output the primary key
\* is the reference occurrence status code, ascending, and the modification
\* dates (the joined dates, so the most recent date first) are the secondary
\* key, descending; records equal in both keep the order in which they were
\* found.
C2_CrossRecordOrder ==
    fileProvinces.written =>
        \A i, j \in 1..Len(fileProvinces.lines) :
            i < j =>
                LET a == fileProvinces.lines[i]
                    b == fileProvinces.lines[j]
                IN  \/ StrLess(Chars(a.occurrenceCode), Chars(b.occurrenceCode))
                    \/ /\ a.occurrenceCode = b.occurrenceCode
                       /\ ~StrLess(MostRecent(a), MostRecent(b))
                       /\ \/ StrLess(b.modifiedDate, a.modifiedDate)
                          \/ a.modifiedDate = b.modifiedDate /\ Origin(a) < Origin(b)

\* C2 witness: the output has a record with the empty status before a record
\* of uncertain occurrence that was modified more recently
C2_Witness ==
    /\ fileProvinces.written
    /\ Len(fileProvinces.lines) = 2
    /\ fileProvinces.lines[1].occurrenceCode = ""
    /\ fileProvinces.lines[2].occurrenceCode = "MX.typeOfOccurrenceUncertain"
    /\ MostRecent(fileProvinces.lines[1]) = Mod1
    /\ MostRecent(fileProvinces.lines[2]) = Mod2

\* C2 as stated: the most recent modification date is the primary key,
\* descending, and the status code decides among records of equal most recent
\* modification date only
C2_CrossRecordOrderAsStated ==
    fileProvinces.written =>
        \A i, j \in 1..Len(fileProvinces.lines) :
            i < j =>
                LET a == fileProvinces.lines[i]
                    b == fileProvinces.lines[j]
                IN  \/ StrLess(MostRecent(b), MostRecent(a))
                    \/ /\ MostRecent(a) = MostRecent(b)
                       /\ ~StrLess(Chars(b.occurrenceCode), Chars(a.occurrenceCode))

\* where x is in the sequence q
Pos(x, q) == CHOOSE i \in 1..Len(q) : q[i] = x

\* the entry of 'notinFI' that became the output row
OriginFI(row) == notinFI.val[CHOOSE s \in DOMAIN notinFI.val : Qualify(s) = row.species]

\* the dates of the row are in non-increasing order, and specimens of equal
\* date are in the order they have in 'original'
NewestFirst(row, original) ==
    LET dates == Split(row.modifiedDate)
        ids == Split(row.specimens)
    IN  \A i, j \in 1..Len(dates) :
            i < j =>
                /\ ~StrLess(dates[i], dates[j])
                /\ dates[i] = <<>> => dates[j] = <<>>
                /\ dates[i] = dates[j] => Pos(ids[i], original) < Pos(ids[j], original)

\* C5: within every emitted NoveltyRecord, region-novelty and country-novelty,
\* the modification dates are non-increasing, empty dates last, and specimens
\* of equal modification date keep their ingestion order.
C5_NewestFirst ==
    /\ \A i \in 1..Len(newToProvinces) :
           NewestFirst(newToProvinces[i], notinTE[Origin(newToProvinces[i])].specimens)
    /\ \A i \in 1..Len(fileProvinces.lines) :
           NewestFirst(fileProvinces.lines[i],
                       notinTE[Origin(fileProvinces.lines[i])].specimens)
    /\ \A i \in 1..Len(newToFI) : NewestFirst(newToFI[i], OriginFI(newToFI[i]).specimens)
    /\ \A i \in 1..Len(fileFI.lines) :
           NewestFirst(fileFI.lines[i], OriginFI(fileFI.lines[i]).specimens)

\* C5 witness: a region-novelty record lists its second specimen, modified
\* later, first, and a country-novelty record lists two specimens modified at
\* the same date in their ingestion order
C5_Witness ==
    /\ pc = "done"
    /\ \E i \in 1..Len(fileProvinces.lines) :
        /\ Split(fileProvinces.lines[i].specimens) = <<DocumentId(2), DocumentId(1)>>
        /\ Split(fileProvinces.lines[i].modifiedDate) = <<Mod2, Mod1>>
    /\ \E i \in 1..Len(fileFI.lines) :
        /\ Split(fileFI.lines[i].specimens) = <<DocumentId(1), DocumentId(2)>>
        /\ Split(fileFI.lines[i].modifiedDate) = <<Mod1, Mod1>>

\* the joined details of a row are those of 'original', each at the place
\* where the row has its specimen
SamePermutation(row, original) ==
    LET ids == Split(row.specimens)
        modified == Split(row.modifiedDate)
        collected == Split(row.collectedDate)
        reliabilities == Split(row.reliability)
    IN  /\ Len(ids) = Len(original.specimens)
        /\ Len(modified) = Len(ids)
        /\ Len(collected) = Len(ids)
        /\ Len(reliabilities) = Len(ids)
        /\ Range(ids) = Range(original.specimens)
        /\ \A i \in 1..Len(ids) :
            /\ modified[i] = original.modifiedDate[Pos(ids[i], original.specimens)]
            /\ collected[i] = original.collectedDate[Pos(ids[i], original.specimens)]
            /\ reliabilities[i] = original.reliability[Pos(ids[i], original.specimens)]

\* the four sequences are as long as 'specimens' and hold, index by index, the
\* details of the specimens of 'specimens'
SameSpecimens(line, specimens) ==
    /\ Len(line.specimens) = Len(specimens)
    /\ Len(line.modifiedDate) = Len(specimens)
    /\ Len(line.collectedDate) = Len(specimens)
    /\ Len(line.reliability) = Len(specimens)
    /\ \A i \in 1..Len(specimens) :
        /\ line.specimens[i] = specimens[i].specimenID
        /\ line.modifiedDate[i] = specimens[i].modifiedDate
        /\ line.collectedDate[i] = specimens[i].gatheredDate
        /\ line.reliability[i] = specimens[i].reliability

\* what the country-scoped records read so far of a species tell of each specimen
DetailsFI(s) ==
    [ i \in 1..Len(ReadOf(s)) |->
        [ specimenID |-> IF ReadOf(s)[i].linkingsUnitId # {}
                         THEN OrEmpty(ReadOf(s)[i].linkingsUnitId)
                         ELSE OrEmpty(ReadOf(s)[i].documentId),
          modifiedDate |-> OrEmpty(ReadOf(s)[i].modifiedDate),
          gatheredDate |-> OrEmpty(ReadOf(s)[i].gatheredDate),
          reliability |-> OrEmpty(ReadOf(s)[i].reliability) ] ]

\* C10: in every NoveltyRecord, before and after the per-record sort, the four
\* specimen-detail sequences have equal length and index i of each belongs to
\* the same contributing specimen; the sort applies one permutation to all four.
C10_ParallelSequences ==
    /\ \A i \in 1..Len(notinTE) :
           SameSpecimens(notinTE[i],
                         occurrences.val[notinTE[i].species].val[notinTE[i].province].specimens)
    /\ \A s \in DOMAIN notinFI.val : SameSpecimens(notinFI.val[s], DetailsFI(s))
    /\ \A i \in 1..Len(newToProvinces) :
           SamePermutation(newToProvinces[i], notinTE[Origin(newToProvinces[i])])
    /\ \A i \in 1..Len(fileProvinces.lines) :
           SamePermutation(fileProvinces.lines[i], notinTE[Origin(fileProvinces.lines[i])])
    /\ \A i \in 1..Len(newToFI) : SamePermutation(newToFI[i], OriginFI(newToFI[i]))
    /\ \A i \in 1..Len(fileFI.lines) :
           SamePermutation(fileFI.lines[i], OriginFI(fileFI.lines[i]))

\* C10 witness: the sort has exchanged the two specimens of a region-novelty
\* record and of a country-novelty record, which differ in every detail
C10_Witness ==
    /\ pc = "done"
    /\ \E i \in 1..Len(fileProvinces.lines) :
        /\ Split(fileProvinces.lines[i].specimens) = <<DocumentId(2), DocumentId(1)>>
        /\ Split(fileProvinces.lines[i].modifiedDate) = <<Mod1, <<>>>>
        /\ Split(fileProvinces.lines[i].collectedDate) = <<Gathered1939, Gathered1940>>
        /\ Split(fileProvinces.lines[i].reliability) = <<Unreliable, Reliable>>
    /\ \E i \in 1..Len(fileFI.lines) :
        /\ Split(fileFI.lines[i].specimens) = <<DocumentId(2), DocumentId(1)>>
        /\ Split(fileFI.lines[i].modifiedDate) = <<Mod1, <<>>>>
        /\ Split(fileFI.lines[i].collectedDate) = <<Gathered1939, Gathered1940>>
        /\ Split(fileFI.lines[i].reliability) = <<Unreliable, Reliable>>

\* the pages 1, 2, ..., n
Upto(n) == [i \in 1..n |-> i]

\* what a download loop has asked for and read is in order: it asked for the
\* pages 1, 2, 3, ... in turn, and read each page asked for, the last one
\* perhaps still being read ('reading')
InTurn(log, reading) ==
    /\ log.asked = Upto(Len(log.asked))
    /\ log.read = Upto(Len(log.read))
    /\ Len(log.asked) = Len(log.read) + (IF reading THEN 1 ELSE 0)

\* the download loop of newtaxa.py has ended
LoopEnded == pc = "compare"

\* the download loop of invalid_speciesnames.py has ended
NamesLoopEnded == npc \in {"write", "done"}

\* what holds of the two download loops at every moment
PagesInTurn ==
    /\ pc \in {"page", "specimens", "compare"} => InTurn(pages, pc = "specimens")
    /\ npc \in {"page", "specimens", "write", "done"} => InTurn(npages, npc = "specimens")
    /\ (pc = "page" /\ pages.asked # <<>>) => js.currentPage < js.lastPage
    /\ (npc = "page" /\ npages.asked # <<>>) => njs.currentPage < njs.lastPage
    /\ LoopEnded =>
        /\ js.currentPage >= js.lastPage
        /\ Last(pages.read) = js.currentPage
        /\ pages.lastPages = {js.lastPage} => pages.read = Upto(js.lastPage)
    /\ NamesLoopEnded =>
        /\ njs.currentPage >= njs.lastPage
        /\ Last(npages.read) = njs.currentPage
        /\ npages.lastPages = {njs.lastPage} => npages.read = Upto(njs.lastPage)

\* C11: each specimen download loop asks for the pages 1, 2, 3, ... in
\* increasing order, one at a time, reads all records of a page before it asks
\* for the next, and ends right after reading the first page for which the
\* source reports currentPage >= lastPage; when the source reports one and the
\* same lastPage throughout, the pages read are 1..lastPage, each once; and a
\* loop that has begun comes to an end (or the run is ended by an error).
C11_Pagination ==
    /\ []PagesInTurn
    /\ (pc = "page") ~> (pc \in {"compare", "aborted"})
    /\ (npc = "page") ~> (npc \in {"write", "aborted"})

\* C11 witness: both loops have ended after reading pages 1 and 2 of sources
\* that reported lastPage = 2 for both pages
C11_Witness ==
    /\ LoopEnded
    /\ pages.read = <<1, 2>>
    /\ pages.lastPages = {2}
    /\ NamesLoopEnded
    /\ npages.read = <<1, 2>>
    /\ npages.lastPages = {2}

\* the status that the reference gives the pair (s, a): its value in the
\* all-status map, the empty string when the map has none
ReferenceStatus(s, a) ==
    IF s \in DOMAIN occurrencesTEall /\ a \in DOMAIN occurrencesTEall[s]
    THEN occurrencesTEall[s][a]
    ELSE ""

\* every aggregated occurrence has the status the reference gives its pair
StatusOfReference ==
    \A s \in DOMAIN occurrences.val :
        \A a \in DOMAIN occurrences.val[s].val :
            /\ "occurrenceCode" \in DOMAIN occurrences.val[s].val[a]
            /\ occurrences.val[s].val[a].occurrenceCode = ReferenceStatus(s, a)

\* every novelty record has the status of the aggregated occurrence it is of
StatusCarried ==
    /\ \A i \in 1..Len(notinTE) :
        /\ "occurrenceCode" \in DOMAIN notinTE[i]
        /\ notinTE[i].occurrenceCode =
               occurrences.val[notinTE[i].species].val[notinTE[i].province].occurrenceCode
    /\ \A i \in 1..Len(newToProvinces) :
        /\ "occurrenceCode" \in DOMAIN newToProvinces[i]
        /\ newToProvinces[i].occurrenceCode =
               notinTE[Origin(newToProvinces[i])].occurrenceCode
    /\ \A i \in 1..Len(fileProvinces.lines) :
        /\ "occurrenceCode" \in DOMAIN fileProvinces.lines[i]
        /\ fileProvinces.lines[i].occurrenceCode =
               notinTE[Origin(fileProvinces.lines[i])].occurrenceCode

\* a step leaves the status of every aggregated occurrence as it is
StatusKept ==
    \A s \in DOMAIN occurrences.val :
        \A a \in DOMAIN occurrences.val[s].val :
            /\ s \in DOMAIN occurrences'.val
            /\ a \in DOMAIN occurrences'.val[s].val
            /\ occurrences'.val[s].val[a].occurrenceCode =
                   occurrences.val[s].val[a].occurrenceCode

\* C12: the reference status of an aggregated occurrence is set when the first
\* specimen of its (Species, Region) key is read, to the reference all-status
\* value of the pair, and no later step changes it; when the reference has no
\* status for the pair, or no entry for the species, it is the empty string,
\* never absent, in every aggregated occurrence and every region-novelty record.
C12_StatusFixed ==
    /\ [](StatusOfReference /\ StatusCarried)
    /\ [][StatusKept]_vars

\* C12 witness: the output has a record of two specimens with the empty status,
\* of a pair the reference has no status for
C12_Witness ==
    /\ fileProvinces.written
    /\ \E i \in 1..Len(fileProvinces.lines) :
        /\ fileProvinces.lines[i].occurrenceCode = ""
        /\ Len(Split(fileProvinces.lines[i].specimens)) = 2
        /\ fileProvinces.lines[i].species = Qualify(MX1)
        /\ fileProvinces.lines[i].province = provinces[ML252]
    /\ MX1 \in DOMAIN occurrencesTEall
    /\ ML252 \notin DOMAIN occurrencesTEall[MX1]

\* the scientific name that a specimen record supplies
NameOf(rec) == rec["unit"]["linkings"]["taxon"]["scientificName"]

\* a step of the aggregation leaves the name of every aggregated occurrence as
\* it is, and gives a new aggregated occurrence the name of the record read
NameOfFirst ==
    /\ \A s \in DOMAIN occurrences.val :
        \A a \in DOMAIN occurrences.val[s].val :
            /\ s \in DOMAIN occurrences'.val
            /\ a \in DOMAIN occurrences'.val[s].val
            /\ occurrences'.val[s].val[a].speciesName = occurrences.val[s].val[a].speciesName
    /\ \A s \in DOMAIN occurrences'.val :
        \A a \in DOMAIN occurrences'.val[s].val :
            ~Aggregated(s, a) =>
                /\ HasSpecies(sp')
                /\ occurrences'.val[s].val[a].speciesName = NameOf(sp')

\* the same of the species of the country-scoped source
NameOfFirstFI ==
    /\ \A s \in DOMAIN notinFI.val :
        /\ s \in DOMAIN notinFI'.val
        /\ notinFI'.val[s].speciesName = notinFI.val[s].speciesName
    /\ \A s \in DOMAIN notinFI'.val :
        s \notin DOMAIN notinFI.val =>
            /\ HasSpecies(sp')
            /\ notinFI'.val[s].speciesName = NameOf(sp')

\* every novelty record has the name of the aggregated occurrence it is of
NameCarried ==
    /\ \A i \in 1..Len(notinTE) :
           notinTE[i].speciesName =
               occurrences.val[notinTE[i].species].val[notinTE[i].province].speciesName
    /\ \A i \in 1..Len(newToProvinces) :
           newToProvinces[i].speciesName = notinTE[Origin(newToProvinces[i])].speciesName
    /\ \A i \in 1..Len(fileProvinces.lines) :
           fileProvinces.lines[i].speciesName =
               notinTE[Origin(fileProvinces.lines[i])].speciesName
    /\ \A i \in 1..Len(newToFI) : newToFI[i].speciesName = OriginFI(newToFI[i]).speciesName
    /\ \A i \in 1..Len(fileFI.lines) :
           fileFI.lines[i].speciesName = OriginFI(fileFI.lines[i]).speciesName

\* C13 (as the code has it): the display name carried by a NoveltyRecord is
\* the name supplied by the first ingested specimen record of its key (species
\* and region; species, for a country-novelty record): later specimens of the
\* key with another name leave it as it is.
C13_DisplayName ==
    /\ []NameCarried
    /\ [][NameOfFirst /\ NameOfFirstFI]_vars

\* C13 witness: the second specimen of a species and region has been read, it
\* names the species otherwise than the first, and the name kept is the first's
C13_Witness ==
    /\ pc = "specimens"
    /\ HasSpecies(sp)
    /\ Len(EntryOf(sp).specimens) = 2
    /\ NameOf(sp) = "Bryum b"
    /\ EntryOf(sp).speciesName = "Bryum a"

\* C13 as stated: the display name is the name supplied by the last ingested
\* specimen record of the species (and region)
C13_DisplayNameAsStated ==
    /\ (pc = "specimens" /\ HasSpecies(sp)) => EntryOf(sp).speciesName = NameOf(sp)
    /\ (pc = "specimensFI" /\ HasSpecies(sp)) =>
           notinFI.val[SpeciesOf(sp)].speciesName = NameOf(sp)

====
